---- MODULE Spec2Model ----
(***************************************************************************)
(* Model of the USD/CNY midpoint lookup of autoflow's fees_fetcher:        *)
(*   - pbc_client._request: the fetch engine (attempt loop, shared cycle   *)
(*     deadline, backoff sleeps, TLS hostname-mismatch handling);          *)
(*   - the three scrapers (pbc_provider, cfets_provider, safe_provider);   *)
(*   - provider_router.fetch_with_fallback: the cascading router.          *)
(* Time is counted in integer ticks; an HTTP attempt takes at least one     *)
(* tick and at most its connect timeout plus its read timeout.  What a     *)
(* remote server answers (the outcome and duration of an attempt, the      *)
(* content of a page) is the environment's choice.  PAGE_DELAY_SECONDS is   *)
(* one tick.  Name resolution (_resolve_for_host) and the DNS counters of   *)
(* FetchMetrics are left out: no request fails while resolving.             *)
(***************************************************************************)
EXTENDS Integers, Sequences, FiniteSets, TLC

\* ---------------------------------------------------------------- bounds
MaxTimeout == 2
MaxAttempts == 2
MaxBackoff == 2
MaxJitter == 1
MaxDeadline == 4
MaxPages == 3
MaxArticles == 1
MaxDay == 2
MaxMonthLen == 5
MaxRows == 2
MaxPortalLen == 12
MaxAvailable == 2

\* ------------------------------------------------------- program constants
None == -1
FAILURE_STOP_THRESHOLD == 2
PAGE_DELAY_SECONDS == 1
FORWARD_TRIALS == 3

VALID_SOURCES == {"auto", "pbc", "cfets", "safe"}
Days == 1..MaxDay
Articles == 1..MaxArticles
Fingerprints == {"fpA", "fpB"}
NoFingerprint == "nofp"

Min(a, b) == IF a <= b THEN a ELSE b
Max(a, b) == IF a >= b THEN a ELSE b

RECURSIVE Pow2(_)
Pow2(n) == IF n <= 0 THEN 1 ELSE 2 * Pow2(n - 1)

\* ascending sequence of the elements of a finite set of integers
RECURSIVE SetToSeq(_)
SetToSeq(S) ==
    IF S = {} THEN << >>
    ELSE LET m == CHOOSE x \in S : \A y \in S : x <= y
         IN  << m >> \o SetToSeq(S \ {m})

VARIABLES
    cfg,            \* REQUEST_CONFIG
    env,            \* PBC_STRICT_TLS, PBC_ALLOWED_CERT_FINGERPRINTS, PBC_FALLBACK_HOSTS
    now,            \* time.monotonic()
    deadline,       \* _CURRENT_DEADLINE_END (None when no cycle is active)
    diag_emitted,   \* _DIAG_EMITTED
    metrics,        \* _METRICS
    router,         \* frame of fetch_with_fallback
    src,            \* frame of the scraper the router is inside
    rq,             \* frame of _request
    hist,           \* observations of the run (no effect on the program)
    cal,            \* year/month and the holidays/workdays handed to monthly_builder
    mb,             \* frame of fetch_month_rate
    csv,            \* the rows of the monthly CSV file (NoFile when it does not exist)
    up,             \* observations of the last upsert_csv call (no effect on the program)
    batch,          \* a caller of upsert_csv and plan_missing_months (the build command)
    wr,             \* two processes inside upsert_csv and the temporary file they share
    portal,         \* frame of get_usd_cny_midpoint_from_portal
    lk              \* the lock file of workbook_lock and the processes that take it

core == << cfg, env, now, deadline, diag_emitted, metrics, router, src, rq, hist >>
rest == << batch, wr, portal, lk >>
ext == << cal, mb, csv, up, rest >>
vars == << cfg, env, now, deadline, diag_emitted, metrics, router, src, rq, hist,
           cal, mb, csv, up, batch, wr, portal, lk >>

\* ------------------------------------------------------------ initial state
FetchMetrics ==
    [ request_attempts |-> 0, request_successes |-> 0, request_failures |-> 0,
      deadline_exceeded |-> 0, early_stop |-> FALSE, tls_hostname_mismatch |-> 0,
      rate_source |-> "None", fallback_used |-> "None" ]

IdleRequest ==
    [ pc |-> "idle", host |-> "", attempt |-> 0, deadline_end |-> None,
      result |-> "none", issued |-> 0, sleeps |-> 0,
      tc |-> 0, tr |-> 0, rem |-> 0, slept |-> 0, slept_rem |-> 0, via |-> "start",
      last |-> "none", fp |-> NoFingerprint, diag |-> 0 ]

IdleSource ==
    [ name |-> "", pc |-> "none", page |-> 0, cand |-> 0, fails |-> 0,
      seen |-> {}, pending |-> << >>, yielded |-> << >>, gen_deadline |-> None, managed |-> FALSE,
      result |-> "none", source_date |-> 0, rate_source |-> "" ]

IdleRouter ==
    [ pc |-> "idle", prefer |-> "", target_date |-> 0, order |-> << >>, idx |-> 0,
      last_tls |-> FALSE, last_lookup |-> FALSE, fallback_used |-> "none",
      result |-> "none", source_date |-> 0, rate_source |-> "" ]

NoHist ==
    [ invoked |-> << >>, outcomes |-> << >>, begins |-> 0, ends |-> 0,
      anchor |-> None, begun_at |-> 0, spent |-> 0 ]

RequestConfigs ==
    [ connect_timeout : 1..MaxTimeout, read_timeout : {MaxTimeout},
      attempts : {MaxAttempts}, backoff_base : {MaxBackoff}, jitter : {MaxJitter},
      total_deadline : {MaxDeadline} ]

Environments ==
    [ strict_mode : BOOLEAN, allowed : {{}, {"fpA"}},
      fallback_hosts : {<< >>, << "www.pbc.gov.cn", "mirror" >>} ]

\* monthly_builder.py at rest
NoCalendar == [ first_weekday |-> 0, holidays |-> {}, workdays |-> {} ]

IdleMonth ==
    [ pc |-> "idle", first |-> None, attempts |-> << >>, idx |-> 0, tried |-> {},
      looked |-> << >>, outcomes |-> << >>, result |-> "none",
      query_date |-> None, request_date |-> None, fallback_used |-> "" ]

NoFile == [ exists |-> FALSE, rows |-> << >> ]

NoUpsert == [ completed |-> FALSE, raised |-> FALSE, written |-> << >>, changed |-> 0 ]

IdleBatch ==
    [ pc |-> "idle", rows |-> << >>, after |-> NoFile,
      start |-> << >>, end |-> << >>, missing |-> << >> ]

\* the callers outside the run at hand are at rest
Writers == {"w1", "w2"}
NoTmp == [ exists |-> FALSE, rows |-> << >>, id |-> 0 ]
IdleWriter == [ pc |-> "idle", target |-> << >>, key |-> << >>, handle |-> 0, pos |-> 0 ]
IdleWriters ==
    [ initial |-> NoFile, tmp |-> NoTmp, csv_id |-> 0, next_id |-> 1,
      procs |-> [ w \in Writers |-> IdleWriter ] ]

IdlePortal ==
    [ pc |-> "idle", first |-> 0, target |-> None, available |-> {},
      window_start |-> None, window_end |-> None, result |-> "none",
      source_date |-> None ]

Procs == {"p1", "p2", "p3"}

NoLock ==
    [ holder |-> "",
      procs |-> [ p \in Procs |-> [ pc |-> "idle", fd |-> FALSE, error |-> "" ] ] ]

RestIdle ==
    /\ batch = IdleBatch
    /\ wr = IdleWriters
    /\ portal = IdlePortal
    /\ lk = NoLock

Init ==
    /\ cfg \in RequestConfigs
    /\ env \in Environments
    /\ now = 0
    /\ deadline = None
    /\ diag_emitted = FALSE
    /\ metrics = FetchMetrics
    /\ router = IdleRouter
    /\ src = IdleSource
    /\ rq = IdleRequest
    /\ hist = NoHist
    /\ cal = NoCalendar
    /\ mb = IdleMonth
    /\ csv = NoFile
    /\ up = NoUpsert
    /\ RestIdle

\* ------------------------------------------------------------ pbc_client.py
PBC_HOST == "www.pbc.gov.cn"
CFETS_HOST == "www.chinamoney.org.cn"
SAFE_HOST == "www.safe.gov.cn"

\* _remaining_deadline(end_time) read at time t
remaining_deadline(end_time, t) == Max(0, end_time - t)

\* begin_request_cycle(total_deadline) called at time t: the new anchor
begin_request_cycle(total_deadline, t) == t + total_deadline

\* the head of _request: the frame of a call for a URL of host h, when the
\* module's deadline anchor is dl
start_request_at(h, dl, start_time) ==
    [ IdleRequest EXCEPT
        !.pc = "check", !.host = h, !.attempt = 1,
        !.deadline_end = IF dl # None THEN dl ELSE start_time + cfg.total_deadline ]

start_request(h, dl) == start_request_at(h, dl, now)

handle_hostname_mismatch_ignoring_strict(fp) ==
    fp # NoFingerprint /\ fp \in env.allowed

\* _handle_hostname_mismatch: TRUE when it returns (lenient accept), FALSE
\* when it raises CertHostnameMismatch; fp is the certificate's fingerprint
handle_hostname_mismatch(fp) ==
    IF env.strict_mode THEN FALSE
    ELSE IF fp = NoFingerprint \/ fp \notin env.allowed THEN FALSE
    ELSE TRUE

\* _maybe_retry_alternate_host: the first fallback host that differs from the
\* current one, "" when there is none
RECURSIVE first_other_host(_, _)
first_other_host(hosts, current) ==
    IF hosts = << >> THEN ""
    ELSE IF Head(hosts) = current THEN first_other_host(Tail(hosts), current)
    ELSE Head(hosts)

maybe_retry_alternate_host_first_listed(current) ==
    IF env.fallback_hosts = << >> THEN "" ELSE Head(env.fallback_hosts)

maybe_retry_alternate_host(current) == first_other_host(env.fallback_hosts, current)

sleep_time_uncapped(attempt, j, remaining) == cfg.backoff_base * Pow2(attempt - 1) + j

\* the sleep between two attempts: backoff_base * 2^(attempt-1) + jitter drawn
\* in 0..cfg.jitter, capped at the remaining deadline
sleep_time(attempt, j, remaining) == Min(cfg.backoff_base * Pow2(attempt - 1) + j, remaining)

attempt_timeout_uncapped(configured, remaining) == configured

\* the per-attempt timeout: min(configured, remaining)
attempt_timeout(configured, remaining) == Min(configured, remaining)

Outcomes == {"ok", "timeout", "http_error", "ssl_mismatch", "ssl_other"}

loop_continues_one_more(attempt) == attempt <= cfg.attempts

\* for attempt in range(1, attempts + 1): another pass follows pass `attempt`
loop_continues(attempt) == attempt < cfg.attempts

\* if attempt < attempts: the backoff sleep follows pass `attempt`
sleeps_after(attempt) == attempt < cfg.attempts

\* the loop of _request leaves through its end: raise PBOCClientError
loop_exhausted(r) == [ r EXCEPT !.pc = "ret", !.result = "PBOCClientError" ]

count_attempt_timeouts_uncounted(m, o) ==
    [ m EXCEPT !.request_attempts = @ + 1,
               !.request_successes = IF o = "ok" THEN @ + 1 ELSE @,
               !.request_failures = IF o \notin {"ok", "timeout"} THEN @ + 1 ELSE @ ]

\* the counters of _METRICS after one issued attempt of outcome o:
\* request_attempts before the call, request_successes after a response that
\* raise_for_status accepts, request_failures in each except clause
count_attempt(m, o) ==
    [ m EXCEPT !.request_attempts = @ + 1,
               !.request_successes = IF o = "ok" THEN @ + 1 ELSE @,
               !.request_failures = IF o # "ok" THEN @ + 1 ELSE @ ]

\* one pass of the attempt loop of _request up to the end of the try statement
request_attempt ==
    /\ rq.pc = "check"
    /\ LET remaining == remaining_deadline(rq.deadline_end, now)
           tc == attempt_timeout(cfg.connect_timeout, remaining)
           tr == attempt_timeout(cfg.read_timeout, remaining)
       IN  IF remaining <= 0 \/ tc <= 0 \/ tr <= 0
           THEN /\ metrics' = [ metrics EXCEPT !.deadline_exceeded = @ + 1 ]
                /\ rq' = [ rq EXCEPT !.pc = "ret", !.result = "FetchTimeout" ]
                /\ UNCHANGED << now, diag_emitted, hist >>
           ELSE \E o \in Outcomes, d \in 1..(tc + tr), fp \in Fingerprints \cup {NoFingerprint} :
                LET issued == [ rq EXCEPT !.issued = @ + 1, !.tc = tc, !.tr = tr,
                                           !.rem = remaining, !.last = o, !.fp = fp ]
                IN
                /\ now' = now + d
                /\ hist' = [ hist EXCEPT !.spent = @ + d ]
                /\ CASE o = "ok" ->
                          /\ fp = NoFingerprint
                          /\ metrics' = count_attempt(metrics, o)
                          /\ rq' = [ issued EXCEPT !.pc = "ret", !.result = "ok" ]
                          /\ UNCHANGED diag_emitted
                     [] o = "timeout" ->
                          /\ fp = NoFingerprint
                          /\ metrics' = count_attempt(metrics, o)
                          /\ rq' = IF sleeps_after(rq.attempt)
                                   THEN [ issued EXCEPT !.pc = "sleep" ]
                                   ELSE IF loop_continues(rq.attempt)
                                   THEN [ issued EXCEPT !.attempt = @ + 1, !.via = "nosleep" ]
                                   ELSE loop_exhausted(issued)
                          /\ UNCHANGED diag_emitted
                     [] o = "http_error" ->
                          /\ fp = NoFingerprint
                          /\ metrics' = count_attempt(metrics, o)
                          /\ rq' = [ issued EXCEPT !.pc = "ret", !.result = "PBOCClientError" ]
                          /\ UNCHANGED diag_emitted
                     [] o = "ssl_other" ->
                          /\ fp = NoFingerprint
                          /\ metrics' = count_attempt(metrics, o)
                          /\ rq' = [ issued EXCEPT !.pc = "ret", !.result = "SSLError" ]
                          /\ UNCHANGED diag_emitted
                     [] o = "ssl_mismatch" ->
                          IF diag_emitted
                          THEN /\ fp = NoFingerprint
                               /\ metrics' = count_attempt(metrics, o)
                               /\ rq' = [ issued EXCEPT !.pc = "ret",
                                                        !.result = "CertHostnameMismatch" ]
                               /\ UNCHANGED diag_emitted
                          ELSE /\ diag_emitted' = TRUE
                               /\ metrics' = [ count_attempt(metrics, o) EXCEPT
                                               !.tls_hostname_mismatch = @ + 1 ]
                               /\ LET alt == maybe_retry_alternate_host(rq.host)
                                      probed == [ issued EXCEPT !.diag = @ + 1 ]
                                  IN  rq' = IF ~handle_hostname_mismatch(fp) \/ alt = ""
                                            THEN [ probed EXCEPT !.pc = "ret",
                                                       !.result = "CertHostnameMismatch" ]
                                            ELSE IF loop_continues(rq.attempt)
                                            THEN [ probed EXCEPT !.host = alt,
                                                       !.attempt = @ + 1, !.via = "subst" ]
                                            ELSE loop_exhausted([ probed EXCEPT !.host = alt ])
    /\ UNCHANGED << cfg, env, deadline, router, src, ext >>

\* the tail of one pass of the attempt loop: the backoff sleep after a timeout
request_sleep ==
    /\ rq.pc = "sleep"
    /\ \E j \in 0..cfg.jitter :
        LET remaining == remaining_deadline(rq.deadline_end, now)
            st == sleep_time(rq.attempt, j, remaining)
        IN  /\ now' = IF st > 0 THEN now + st ELSE now
            /\ hist' = [ hist EXCEPT !.spent = @ + Max(st, 0) ]
            /\ rq' = LET r == [ rq EXCEPT !.via = "sleep",
                                          !.sleeps = IF st > 0 THEN @ + 1 ELSE @,
                                          !.slept = st, !.slept_rem = remaining ]
                     IN  IF loop_continues(rq.attempt)
                         THEN [ r EXCEPT !.pc = "check", !.attempt = @ + 1 ]
                         ELSE loop_exhausted(r)
    /\ UNCHANGED << cfg, env, deadline, diag_emitted, metrics, router, src, ext >>

\* end_request_cycle(): the anchor after the call
end_request_cycle == None

\* _list_page_candidates(page): the number of candidate URLs of an index page
list_page_candidates(page) == IF page = 0 THEN 3 ELSE 2

\* ---------------------------------------------------------- pbc_provider.py
\* the scraper returns a quote / raises exc
source_returns(rate_source, source_date) ==
    [ src EXCEPT !.pc = "done", !.result = "quote", !.rate_source = rate_source,
                 !.source_date = source_date, !.pending = << >>, !.seen = {} ]

source_raises(exc) ==
    [ src EXCEPT !.pc = "done", !.result = exc, !.pending = << >>, !.seen = {} ]

\* the finally clause of fetch_pbc_midpoint
pbc_finally ==
    IF src.managed
    THEN /\ deadline' = end_request_cycle
         /\ hist' = [ hist EXCEPT !.ends = @ + 1 ]
    ELSE UNCHANGED << deadline, hist >>

pbc_leave(s) ==
    /\ src' = s
    /\ rq' = IdleRequest
    /\ pbc_finally

\* fetch_pbc_midpoint after the announcement loop: probe_keychart
pbc_goto_keychart(s) ==
    /\ src' = [ s EXCEPT !.pc = "pbc_keychart", !.pending = << >> ]
    /\ rq' = start_request(PBC_HOST, deadline)
    /\ UNCHANGED << deadline, hist >>

\* iter_article_urls: the next index page, or the end of the generator
pbc_next_page(s) ==
    IF s.page + 1 < MaxPages
    THEN /\ src' = [ s EXCEPT !.pc = "pbc_index", !.page = @ + 1, !.cand = 1 ]
         /\ rq' = start_request(PBC_HOST, deadline)
         /\ UNCHANGED << deadline, hist >>
    ELSE pbc_goto_keychart(s)

stop_scan_never(fails) == FALSE

\* iter_article_urls: consecutive_failures >= FAILURE_STOP_THRESHOLD
stop_scan(fails) == fails >= FAILURE_STOP_THRESHOLD

\* iter_article_urls: an index page none of whose candidates was readable
pbc_page_unreadable ==
    LET s == [ src EXCEPT !.fails = @ + 1 ]
    IN  IF stop_scan(s.fails)
        THEN /\ metrics' = [ metrics EXCEPT !.early_stop = TRUE ]
             /\ pbc_goto_keychart(s)
        ELSE /\ UNCHANGED metrics
             /\ pbc_next_page(s)

\* the consumer asks the generator for the next article URL
pbc_next_article(s) ==
    IF s.pending # << >>
    THEN /\ src' = [ s EXCEPT !.pc = "pbc_article",
                                !.yielded = Append(@, Head(s.pending)) ]
         /\ rq' = start_request(PBC_HOST, deadline)
         /\ UNCHANGED << deadline, hist >>
    ELSE /\ src' = [ s EXCEPT !.pc = "pbc_delay" ]
         /\ rq' = IdleRequest
         /\ UNCHANGED << deadline, hist >>

\* iter_article_urls: _request of an index candidate has ended
pbc_index_return ==
    /\ src.pc = "pbc_index" /\ rq.pc = "ret"
    /\ CASE rq.result = "CertHostnameMismatch" ->
              /\ pbc_leave(source_raises("CertHostnameMismatch"))
              /\ UNCHANGED metrics
         [] rq.result = "FetchTimeout" ->
              /\ pbc_goto_keychart(src)
              /\ UNCHANGED metrics
         [] rq.result = "PBOCClientError" ->
              IF src.cand < list_page_candidates(src.page)
              THEN /\ src' = [ src EXCEPT !.cand = @ + 1 ]
                   /\ rq' = start_request(PBC_HOST, deadline)
                   /\ UNCHANGED << deadline, hist, metrics >>
              ELSE pbc_page_unreadable
         [] rq.result = "SSLError" ->
              /\ pbc_leave(source_raises("SSLError"))
              /\ UNCHANGED metrics
         [] rq.result = "ok" ->
              \E readable \in BOOLEAN, anchors \in SUBSET Articles :
                 IF ~readable
                 THEN /\ anchors = {}
                      /\ pbc_page_unreadable
                 ELSE /\ pbc_next_article([ src EXCEPT !.fails = 0,
                                               !.pending = SetToSeq(anchors \ src.seen),
                                               !.seen = @ \cup anchors ])
                      /\ UNCHANGED metrics
    /\ UNCHANGED << cfg, env, now, diag_emitted, router, ext >>

\* fetch_pbc_midpoint: parse_article of the yielded URL has ended
pbc_article_return ==
    /\ src.pc = "pbc_article" /\ rq.pc = "ret"
    /\ CASE rq.result = "CertHostnameMismatch" ->
              pbc_leave(source_raises("CertHostnameMismatch"))
         [] rq.result = "FetchTimeout" ->
              pbc_goto_keychart(src)
         [] rq.result \in {"PBOCClientError", "SSLError"} ->
              pbc_leave(source_raises(rq.result))
         [] rq.result = "ok" ->
              \E matched \in BOOLEAN :
                 IF matched
                 THEN pbc_leave(source_returns("pbc_notice", router.target_date))
                 ELSE pbc_next_article([ src EXCEPT !.pending = Tail(@) ])
    /\ UNCHANGED << cfg, env, now, diag_emitted, metrics, router, ext >>

\* iter_article_urls: the delay after a readable index page
pbc_page_delay ==
    /\ src.pc = "pbc_delay"
    /\ LET delay == IF src.gen_deadline = None THEN PAGE_DELAY_SECONDS
                    ELSE Min(PAGE_DELAY_SECONDS, remaining_deadline(src.gen_deadline, now))
       IN  /\ now' = now + Max(delay, 0)
           /\ IF src.page + 1 < MaxPages
              THEN src' = [ src EXCEPT !.pc = "pbc_index", !.page = @ + 1, !.cand = 1 ]
              ELSE src' = [ src EXCEPT !.pc = "pbc_keychart" ]
           /\ rq' = start_request_at(PBC_HOST, deadline, now')
           /\ hist' = [ hist EXCEPT !.spent = @ + Max(delay, 0) ]
    /\ UNCHANGED << cfg, env, deadline, diag_emitted, metrics, router, ext >>

\* fetch_pbc_midpoint: probe_keychart has ended
pbc_keychart_return ==
    /\ src.pc = "pbc_keychart" /\ rq.pc = "ret"
    /\ CASE rq.result = "CertHostnameMismatch" ->
              /\ pbc_leave(source_raises("CertHostnameMismatch"))
              /\ UNCHANGED metrics
         [] rq.result = "FetchTimeout" ->
              /\ metrics' = [ metrics EXCEPT !.deadline_exceeded = @ + 1 ]
              /\ pbc_leave(source_raises("RateLookupError"))
         [] rq.result = "PBOCClientError" ->
              /\ pbc_leave(source_raises("RateLookupError"))
              /\ UNCHANGED metrics
         [] rq.result = "SSLError" ->
              /\ pbc_leave(source_raises("SSLError"))
              /\ UNCHANGED metrics
         [] rq.result = "ok" ->
              /\ \E found \in BOOLEAN :
                    IF found
                    THEN pbc_leave(source_returns("pbc_keychart", router.target_date))
                    ELSE pbc_leave(source_raises("RateLookupError"))
              /\ UNCHANGED metrics
    /\ UNCHANGED << cfg, env, now, diag_emitted, router, ext >>

\* -------------------------------------------------------- cfets_provider.py
\* get_usd_cny_midpoint_from_notice: _request of the notice page has ended
cfets_notice_return ==
    /\ src.pc = "cfets_notice" /\ rq.pc = "ret"
    /\ CASE rq.result \in {"CertHostnameMismatch", "FetchTimeout", "SSLError"} ->
              src' = source_raises(rq.result)
         [] rq.result = "PBOCClientError" ->
              src' = source_raises("LookupError")
         [] rq.result = "ok" ->
              \E quoted \in BOOLEAN, d \in Days :
                 IF quoted
                 THEN src' = source_returns("cfets_notice", d)
                 ELSE /\ d = router.target_date
                      /\ src' = source_raises("LookupError")
    /\ rq' = IdleRequest
    /\ UNCHANGED << cfg, env, now, deadline, diag_emitted, metrics, router, hist, ext >>

\* --------------------------------------------------------- safe_provider.py
\* get_usd_cny_midpoint_from_portal on the HTML of the portal: a quote of a
\* date of the window, or LookupError
safe_parse_portal ==
    \E quoted \in BOOLEAN, d \in Days :
       IF quoted
       THEN src' = source_returns("safe_portal", d)
       ELSE /\ d = router.target_date
            /\ src' = source_raises("LookupError")

\* _fetch_portal_html: the POST has ended
safe_post_return ==
    /\ src.pc = "safe_post" /\ rq.pc = "ret"
    /\ CASE rq.result \in {"CertHostnameMismatch", "FetchTimeout", "SSLError"} ->
              /\ src' = source_raises(rq.result)
              /\ rq' = IdleRequest
         [] rq.result = "PBOCClientError" ->
              /\ src' = [ src EXCEPT !.pc = "safe_get" ]
              /\ rq' = start_request(SAFE_HOST, deadline)
         [] rq.result = "ok" ->
              /\ safe_parse_portal
              /\ rq' = IdleRequest
    /\ UNCHANGED << cfg, env, now, deadline, diag_emitted, metrics, router, hist, ext >>

\* _fetch_portal_html: the GET that follows a rejected POST has ended
safe_get_return ==
    /\ src.pc = "safe_get" /\ rq.pc = "ret"
    /\ CASE rq.result \in {"CertHostnameMismatch", "FetchTimeout", "SSLError"} ->
              src' = source_raises(rq.result)
         [] rq.result = "PBOCClientError" ->
              src' = source_raises("LookupError")
         [] rq.result = "ok" ->
              safe_parse_portal
    /\ rq' = IdleRequest
    /\ UNCHANGED << cfg, env, now, deadline, diag_emitted, metrics, router, hist, ext >>

\* -------------------------------------------------------- provider_router.py
build_order_always_pbc(prefer) == << "pbc", "cfets", "safe" >>

\* _build_order(prefer)
build_order(prefer) ==
    CASE prefer = "auto"  -> << "pbc", "cfets", "safe" >>
      [] prefer = "pbc"   -> << "pbc", "cfets", "safe" >>
      [] prefer = "cfets" -> << "cfets", "safe" >>
      [] prefer = "safe"  -> << "safe" >>
      [] OTHER            -> << "pbc", "cfets", "safe" >>

invoke_manage_cycle_default(source) == TRUE

\* _invoke_source: the manage_cycle argument handed to the scraper
invoke_manage_cycle(source) == FALSE

\* the except clauses of the loop of fetch_with_fallback: the class under
\* which the router catches an exception, "escaped" when it catches none
router_catch(exc) ==
    CASE exc = "CertHostnameMismatch"               -> "tls"
      [] exc = "FetchTimeout"                       -> "timeout"
      [] exc \in {"LookupError", "RateLookupError"} -> "lookup"
      [] OTHER                                      -> "escaped"

fallback_tag_any_source(idx, source, rate_source, source_date, target_date) ==
    IF source_date # target_date THEN "forward"
    ELSE IF idx > 1 THEN source
    ELSE "none"

\* the tag of a successful source (idx counts from 1)
fallback_tag(idx, source, rate_source, source_date, target_date) ==
    IF rate_source = "safe_portal" /\ source_date # target_date THEN "forward"
    ELSE IF idx > 1 THEN source
    ELSE "none"

all_fail_error_any_prefer(prefer, last_tls) ==
    IF last_tls THEN "CertHostnameMismatch" ELSE "RateLookupError"

\* the error raised after the loop
all_fail_error(prefer, last_tls) ==
    IF last_tls /\ prefer \in {"auto", "pbc"} THEN "CertHostnameMismatch"
    ELSE "RateLookupError"

router_finally_on_return_only(exit, dl) == IF exit = "escaped" THEN dl ELSE None

\* the finally clause: the deadline anchor when fetch_with_fallback is left
\* with the given kind of exit, dl being the anchor before
router_finally(exit, dl) == end_request_cycle

\* fetch_with_fallback up to the loop
router_begin ==
    /\ router.pc = "idle"
    /\ \E prefer \in VALID_SOURCES \cup {"bogus"}, target \in Days :
        IF prefer \notin VALID_SOURCES
        THEN /\ target = 1
             /\ router' = [ router EXCEPT !.pc = "done", !.prefer = prefer,
                                          !.result = "ValueError" ]
             /\ UNCHANGED << deadline, diag_emitted, metrics, hist >>
        ELSE /\ router' = [ router EXCEPT !.pc = "loop", !.prefer = prefer,
                                          !.target_date = target,
                                          !.order = build_order(prefer), !.idx = 1 ]
             /\ deadline' = begin_request_cycle(cfg.total_deadline, now)
             /\ diag_emitted' = FALSE
             /\ metrics' = [ metrics EXCEPT !.rate_source = "None", !.fallback_used = "None" ]
             /\ hist' = [ hist EXCEPT !.begins = @ + 1, !.anchor = deadline',
                                      !.begun_at = now, !.spent = 0 ]
    /\ UNCHANGED << cfg, env, now, src, rq, ext >>

\* the loop calls _invoke_source(source, target_date): the scraper runs up to
\* its first _request
router_invoke ==
    /\ router.pc = "loop" /\ router.idx <= Len(router.order)
    /\ LET source == router.order[router.idx]
           managed == source = "pbc" /\ invoke_manage_cycle(source)
           dl == IF managed THEN begin_request_cycle(cfg.total_deadline, now) ELSE deadline
       IN  /\ router' = [ router EXCEPT !.pc = "wait" ]
           /\ deadline' = dl
           /\ diag_emitted' = IF managed THEN FALSE ELSE diag_emitted
           /\ hist' = [ hist EXCEPT !.invoked = Append(@, source),
                                    !.begins = IF managed THEN @ + 1 ELSE @ ]
           /\ src' = [ IdleSource EXCEPT
                         !.name = source,
                         !.pc = CASE source = "pbc" -> "pbc_index"
                                  [] source = "cfets" -> "cfets_notice"
                                  [] source = "safe" -> "safe_post",
                         !.cand = IF source = "pbc" THEN 1 ELSE 0,
                         !.managed = managed,
                         !.gen_deadline = IF source = "pbc" THEN dl ELSE None ]
           /\ rq' = start_request(CASE source = "pbc" -> PBC_HOST
                                    [] source = "cfets" -> CFETS_HOST
                                    [] source = "safe" -> SAFE_HOST, dl)
    /\ UNCHANGED << cfg, env, now, metrics, ext >>

\* the scraper has returned or raised: the except clauses and the success path
router_handle ==
    /\ router.pc = "wait" /\ src.pc = "done"
    /\ LET source == router.order[router.idx]
           class == IF src.result = "quote" THEN "ok" ELSE router_catch(src.result)
       IN  /\ hist' = [ hist EXCEPT !.outcomes = Append(@, class),
                                    !.ends = IF class \in {"ok", "escaped"} THEN @ + 1 ELSE @ ]
           /\ CASE class = "ok" ->
                     LET tag == fallback_tag(router.idx, source, src.rate_source,
                                             src.source_date, router.target_date)
                     IN  /\ router' = [ router EXCEPT !.pc = "done", !.result = "quote",
                                           !.fallback_used = tag,
                                           !.rate_source = src.rate_source,
                                           !.source_date = src.source_date ]
                         /\ metrics' = [ metrics EXCEPT !.rate_source = src.rate_source,
                                                        !.fallback_used = tag ]
                         /\ deadline' = router_finally("quote", deadline)
                [] class = "tls" ->
                     /\ router' = [ router EXCEPT !.pc = "loop", !.idx = @ + 1,
                                                  !.last_tls = TRUE ]
                     /\ UNCHANGED << metrics, deadline >>
                [] class \in {"timeout", "lookup"} ->
                     /\ router' = [ router EXCEPT !.pc = "loop", !.idx = @ + 1,
                                                  !.last_lookup = TRUE ]
                     /\ UNCHANGED << metrics, deadline >>
                [] class = "escaped" ->
                     /\ router' = [ router EXCEPT !.pc = "done", !.result = src.result ]
                     /\ deadline' = router_finally("escaped", deadline)
                     /\ UNCHANGED metrics
    /\ src' = IdleSource
    /\ UNCHANGED << cfg, env, now, diag_emitted, rq, ext >>

\* the loop is over without a quote
router_all_fail ==
    /\ router.pc = "loop" /\ router.idx > Len(router.order)
    /\ router' = [ router EXCEPT !.pc = "done",
                                 !.result = all_fail_error(router.prefer, router.last_tls) ]
    /\ deadline' = router_finally("raise", deadline)
    /\ hist' = [ hist EXCEPT !.ends = @ + 1 ]
    /\ UNCHANGED << cfg, env, now, diag_emitted, metrics, src, rq, ext >>

Next ==
    \/ router_begin
    \/ router_invoke
    \/ router_handle
    \/ router_all_fail
    \/ request_attempt
    \/ request_sleep
    \/ pbc_index_return
    \/ pbc_article_return
    \/ pbc_page_delay
    \/ pbc_keychart_return
    \/ cfets_notice_return
    \/ safe_post_return
    \/ safe_get_return

Spec == Init /\ [][Next]_vars

\* -------------------------------------------------------- monthly_builder.py
\* A month is scaled to MaxMonthLen days; the weekday of its day 1 is free
\* (0 is Monday, 5 and 6 are Saturday and Sunday).  A date of the month is its
\* day number; holidays and workdays are the dates of the month in the two
\* sets of cn_workdays.yaml.  What the lookup (the router, by default)
\* answers for a date is the environment's choice among the results
\* fetch_with_fallback can have.
MonthDays == 1..MaxMonthLen

Calendars ==
    [ first_weekday : 0..6, holidays : SUBSET MonthDays, workdays : SUBSET MonthDays ]

\* date.weekday() of day d
weekday(d, c) == (c.first_weekday + d - 1) % 7

is_business_day_workdays_first(d, c) ==
    IF d \in c.workdays THEN TRUE
    ELSE IF d \in c.holidays THEN FALSE
    ELSE weekday(d, c) < 5

\* _is_business_day(target, holidays, workdays)
is_business_day(d, c) ==
    IF c.holidays # {} /\ d \in c.holidays THEN FALSE
    ELSE IF weekday(d, c) >= 5 THEN c.workdays # {} /\ d \in c.workdays
    ELSE TRUE

\* the while loop of first_business_day from date `current`; None stands for
\* the ValueError raised when the scan leaves the month
RECURSIVE scan_business_day(_, _)
scan_business_day(current, c) ==
    IF current > MaxMonthLen THEN None
    ELSE IF is_business_day(current, c) THEN current
    ELSE scan_business_day(current + 1, c)

\* first_business_day(year, month, holidays, workdays)
first_business_day(c) == scan_business_day(1, c)

RECURSIVE forward_candidates_any_day(_, _, _)
forward_candidates_any_day(cursor, trials, c) ==
    IF trials >= FORWARD_TRIALS \/ cursor + 1 > MaxMonthLen THEN << >>
    ELSE << cursor + 1 >> \o forward_candidates_any_day(cursor + 1, trials + 1, c)

\* the forward loop of fetch_month_rate: the dates appended after the cursor
\* when `trials` forward candidates have been appended already
RECURSIVE forward_candidates(_, _, _)
forward_candidates(cursor, trials, c) ==
    IF trials >= FORWARD_TRIALS THEN << >>
    ELSE IF cursor + 1 > MaxMonthLen THEN << >>
    ELSE IF ~is_business_day(cursor + 1, c)
         THEN forward_candidates(cursor + 1, trials, c)
         ELSE << cursor + 1 >> \o forward_candidates(cursor + 1, trials + 1, c)

RECURSIVE backward_candidates_ascending(_)
backward_candidates_ascending(cursor) ==
    IF cursor < 1 THEN << >>
    ELSE backward_candidates_ascending(cursor - 1) \o << cursor >>

\* the backward loop of fetch_month_rate from backward_cursor
RECURSIVE backward_candidates(_)
backward_candidates(cursor) ==
    IF cursor < 1 THEN << >>
    ELSE << cursor >> \o backward_candidates(cursor - 1)

\* the list `attempts` of fetch_month_rate
candidate_dates(first_day, c) ==
    << first_day >> \o forward_candidates(first_day, 0, c)
                    \o backward_candidates(first_day - 1)

\* what lookup(iso, prefer_source) can do, and the tags it can return
LookupOutcomes == {"quote", "RateLookupError", "CertHostnameMismatch", "PBOCClientError"}
LookupTags == {"", "none", "cfets", "safe", "forward"}

month_catch_swallow_tls(exc) ==
    IF exc \in {"RateLookupError", "CertHostnameMismatch"} THEN "continue" ELSE "raise"

\* the except clauses around the lookup
month_catch(exc) ==
    CASE exc = "CertHostnameMismatch" -> "raise"
      [] exc = "RateLookupError"      -> "continue"
      [] OTHER                        -> "raise"

\* the fallback_used field of the MonthlyRateResult
monthly_fallback_used(tag, query_date, request_date) ==
    IF tag = "" THEN "none" ELSE tag

\* fetch_month_rate up to the lookup loop
month_begin ==
    /\ mb.pc = "idle"
    /\ LET first_day == first_business_day(cal)
       IN  IF first_day = None
           THEN mb' = [ mb EXCEPT !.pc = "done", !.result = "ValueError" ]
           ELSE mb' = [ mb EXCEPT !.pc = "loop", !.first = first_day, !.idx = 1,
                                  !.attempts = candidate_dates(first_day, cal) ]
    /\ UNCHANGED << core, cal, csv, up, rest >>

\* one pass of the lookup loop
month_lookup ==
    /\ mb.pc = "loop" /\ mb.idx <= Len(mb.attempts)
    /\ LET candidate == mb.attempts[mb.idx]
       IN  IF candidate \in mb.tried
           THEN mb' = [ mb EXCEPT !.idx = @ + 1 ]
           ELSE \E o \in LookupOutcomes, tag \in LookupTags :
                LET m == [ mb EXCEPT !.tried = @ \cup {candidate},
                                     !.looked = Append(@, candidate),
                                     !.outcomes = Append(@, o) ]
                IN  IF o = "quote"
                    THEN mb' = [ m EXCEPT !.pc = "done", !.result = "quote",
                                          !.query_date = mb.first,
                                          !.request_date = candidate,
                                          !.fallback_used =
                                              monthly_fallback_used(tag, mb.first, candidate) ]
                    ELSE /\ tag = ""
                         /\ IF month_catch(o) = "continue"
                            THEN mb' = [ m EXCEPT !.idx = @ + 1 ]
                            ELSE mb' = [ m EXCEPT !.pc = "done", !.result = o ]
    /\ UNCHANGED << core, cal, csv, up, rest >>

\* the loop is over without a quote
month_all_fail ==
    /\ mb.pc = "loop" /\ mb.idx > Len(mb.attempts)
    /\ mb' = [ mb EXCEPT !.pc = "done", !.result = "RateLookupError" ]
    /\ UNCHANGED << core, cal, csv, up, rest >>

\* the module state of pbc_client while monthly_builder runs on its own
CoreIdle ==
    /\ cfg = [ connect_timeout |-> MaxTimeout, read_timeout |-> MaxTimeout,
               attempts |-> MaxAttempts, backoff_base |-> MaxBackoff,
               jitter |-> MaxJitter, total_deadline |-> MaxDeadline ]
    /\ env = [ strict_mode |-> TRUE, allowed |-> {}, fallback_hosts |-> << >> ]
    /\ now = 0
    /\ deadline = None
    /\ diag_emitted = FALSE
    /\ metrics = FetchMetrics
    /\ router = IdleRouter
    /\ src = IdleSource
    /\ rq = IdleRequest
    /\ hist = NoHist

MonthInit ==
    /\ CoreIdle
    /\ cal \in Calendars
    /\ mb = IdleMonth
    /\ csv = NoFile
    /\ up = NoUpsert
    /\ RestIdle

MonthNext ==
    \/ month_begin
    \/ month_lookup
    \/ month_all_fail

MonthSpec == MonthInit /\ [][MonthNext]_vars

\* the monthly CSV file: upsert_csv
\* A file is the sequence of its data rows (the header line is left out); a
\* row of the file holds year and month as text (sequences of decimal
\* digits), a row handed to upsert_csv holds them as integers, None when the
\* field is missing.  Of the other five columns only mid_rate is kept.
Years == {2023, 2024}
Months == {1, 12}
Rates == {"6.9600", "6.7600"}

\* str(int(n)) for n >= 0
RECURSIVE digits(_)
digits(n) == IF n < 10 THEN << n >> ELSE digits(n \div 10) \o << n % 10 >>

\* f"{month:02d}"
month_text(m) == IF m < 10 THEN << 0, m >> ELSE digits(m)

\* int(text): None stands for the ValueError of a text that is no number
RECURSIVE parse_digits(_, _)
parse_digits(text, acc) ==
    IF text = << >> THEN acc ELSE parse_digits(Tail(text), 10 * acc + Head(text))

parse_int_last_digit(text) == IF text = << >> THEN None ELSE text[Len(text)]

parse_int(text) == IF text = << >> THEN None ELSE parse_digits(text, 0)

\* _canonical_field_for(raw_key): the canonical field of a header or mapping
\* key, "" when it is no alias; zh_year, zh_month and zh_mid_rate stand for the
\* Chinese output headers of CANONICAL_TO_OUTPUT
canonical_field_for(raw_key) ==
    CASE raw_key \in {"year", "zh_year"}         -> "year"
      [] raw_key \in {"month", "zh_month"}       -> "month"
      [] raw_key \in {"mid_rate", "zh_mid_rate"} -> "mid_rate"
      [] OTHER                                   -> ""

\* the value _canonicalize_mapping(row) has for a canonical field, `missing`
\* when no key of the row is an alias of it
canonical_value(row, field, missing) ==
    LET keys == { k \in DOMAIN row : canonical_field_for(k) = field }
    IN  IF keys = {} THEN missing ELSE row[CHOOSE k \in keys : TRUE]

\* _normalize_row_input(row): None for a year or month that is missing
normalize_row_input(row) ==
    [ year |-> canonical_value(row, "year", None),
      month |-> canonical_value(row, "month", None),
      mid_rate |-> canonical_value(row, "mid_rate", "") ]

\* the rows upsert_csv can be handed, and the rows a file written by hand or
\* by an earlier version can hold
InputRows ==
    [ year : Years, month : Months, mid_rate : Rates ]
        \cup { [ year |-> 2023, month |-> None, mid_rate |-> "6.9600" ] }

LegacyRows ==
    [ year : { digits(y) : y \in Years },
      month : { << 1 >>, << 0, 1 >>, << >> },
      mid_rate : Rates ]

RECURSIVE SeqsUpTo(_, _)
SeqsUpTo(S, n) ==
    IF n = 0 THEN { << >> }
    ELSE LET shorter == SeqsUpTo(S, n - 1)
         IN  shorter \cup { Append(q, x) : q \in shorter, x \in S }

\* the arguments of a call, and the files found before the first call
CallRows == SeqsUpTo(InputRows, MaxRows)
LegacyFiles ==
    { << >> } \cup { << a >> : a \in LegacyRows }
              \cup { << a, b >> : a \in LegacyRows, b \in LegacyRows }

\* _ensure_all_fields(record, year=, month=)
ensure_all_fields(row, year, month) ==
    [ year |-> digits(year), month |-> month_text(month), mid_rate |-> row.mid_rate ]

store_record_if_absent(records, key, record) ==
    IF key \in DOMAIN records THEN records
    ELSE [ k \in DOMAIN records \cup {key} |-> IF k = key THEN record ELSE records[k] ]

\* records[key] = record on a dict
store_record(records, key, record) ==
    [ k \in DOMAIN records \cup {key} |-> IF k = key THEN record ELSE records[k] ]

load_rows_first_only(rows, records) ==
    IF rows = << >> THEN records
    ELSE LET row == Head(rows)
             year_val == parse_int(row.year)
             month_val == parse_int(row.month)
         IN  IF year_val = None \/ month_val = None THEN records
             ELSE store_record(records, << year_val, month_val >>,
                               ensure_all_fields(row, year_val, month_val))

\* the loop of _load_existing_records over the data rows
RECURSIVE load_rows(_, _)
load_rows(rows, records) ==
    IF rows = << >> THEN records
    ELSE LET row == Head(rows)
             year_val == parse_int(row.year)
             month_val == parse_int(row.month)
         IN  IF year_val = None \/ month_val = None
             THEN load_rows(Tail(rows), records)
             ELSE load_rows(Tail(rows),
                            store_record(records, << year_val, month_val >>,
                                         ensure_all_fields(row, year_val, month_val)))

\* _load_existing_records(csv_path)
load_existing_records(file) ==
    IF ~file.exists THEN << >> ELSE load_rows(file.rows, << >>)

\* the loop of upsert_csv over rows that all have year and month
RECURSIVE merge_rows(_, _)
merge_rows(rows, state) ==
    IF rows = << >> THEN state
    ELSE LET row == normalize_row_input(Head(rows))
             key == << row.year, row.month >>
             record == ensure_all_fields(row, row.year, row.month)
             differs == key \notin DOMAIN state.existing \/ state.existing[key] # record
         IN  merge_rows(Tail(rows),
                        [ existing |-> IF differs
                                       THEN store_record(state.existing, key, record)
                                       ELSE state.existing,
                          changed |-> IF differs THEN state.changed + 1
                                      ELSE state.changed ])

key_less(a, b) == a[1] < b[1] \/ (a[1] = b[1] /\ a[2] < b[2])

\* sorted(existing.keys())
RECURSIVE sorted_keys(_)
sorted_keys(S) ==
    IF S = {} THEN << >>
    ELSE LET m == CHOOSE x \in S : \A y \in S \ {x} : key_less(x, y)
         IN  << m >> \o sorted_keys(S \ {m})

\* the rows written to the temporary file that replaces the CSV
write_rows(existing) ==
    LET ordered_keys == sorted_keys(DOMAIN existing)
    IN  [ i \in 1..Len(ordered_keys) |-> existing[ordered_keys[i]] ]

\* the (year, month) of a row handed to upsert_csv
row_key(row) == << normalize_row_input(row).year, normalize_row_input(row).month >>

\* the row lacks year or month: upsert_csv raises ValueError
row_invalid(row) == None \in { row_key(row)[1], row_key(row)[2] }

\* the last mid_rate handed in for each key of a call (observation)
last_written(rows) ==
    LET keyed == { i \in 1..Len(rows) : ~row_invalid(rows[i]) }
        keys == { row_key(rows[i]) : i \in keyed }
    IN  [ k \in keys |->
            LET idx == { i \in keyed : row_key(rows[i]) = k }
            IN  normalize_row_input(rows[CHOOSE i \in idx : \A j \in idx : j <= i]).mid_rate ]

\* upsert_csv(csv_path, rows) on the file `file`: whether it raises, the file
\* it leaves and its counter `changed`
upsert_outcome(file, rows) ==
    IF \E i \in 1..Len(rows) : row_invalid(rows[i])
    THEN [ raised |-> TRUE, file |-> file, changed |-> 0 ]
    ELSE LET merged == merge_rows(rows, [ existing |-> load_existing_records(file),
                                          changed |-> 0 ])
         IN  [ raised |-> FALSE,
               file |-> [ exists |-> TRUE, rows |-> write_rows(merged.existing) ],
               changed |-> merged.changed ]

\* upsert_csv(csv_path, rows)
upsert_csv ==
    /\ \E rows \in CallRows :
          LET out == upsert_outcome(csv, rows)
          IN  /\ csv' = out.file
              /\ up' = IF out.raised
                        THEN [ up EXCEPT !.raised = TRUE, !.written = << >>, !.changed = 0 ]
                        ELSE [ completed |-> TRUE, raised |-> FALSE,
                               written |-> last_written(rows), changed |-> out.changed ]
    /\ UNCHANGED << core, cal, mb, rest >>

StoreInit ==
    /\ CoreIdle
    /\ cal = NoCalendar
    /\ mb = IdleMonth
    /\ csv \in {NoFile} \cup [ exists : {TRUE}, rows : LegacyFiles ]
    /\ up = NoUpsert
    /\ RestIdle

StoreNext == upsert_csv

StoreSpec == StoreInit /\ [][StoreNext]_vars

\* the build command: plan_missing_months and repeated upsert_csv calls
\* rows that use the output headers instead of the canonical field names
AliasedRows == [ zh_year : Years, zh_month : {1}, zh_mid_rate : Rates ]

BatchRows == InputRows \cup AliasedRows
BatchCalls == SeqsUpTo(BatchRows, MaxRows)

BatchFiles ==
    {NoFile} \cup { [ exists |-> TRUE, rows |-> f ] :
                      f \in { << >> } \cup { << a >> : a \in LegacyRows } }

\* the month markers handed to plan_missing_months as start and end
PlanMarkers == { << 2023, 11 >>, << 2023, 12 >>, << 2024, 1 >>, << 2024, 2 >> }

\* the marker _iter_months yields after `current`
next_month(current) ==
    IF current[2] = 12 THEN << current[1] + 1, 1 >> ELSE << current[1], current[2] + 1 >>

RECURSIVE iter_months_exclusive(_, _)
iter_months_exclusive(current, terminal) ==
    IF ~key_less(current, terminal) THEN << >>
    ELSE << current >> \o iter_months_exclusive(next_month(current), terminal)

\* _iter_months(start, end) from marker `current`
RECURSIVE iter_months(_, _)
iter_months(current, terminal) ==
    IF key_less(terminal, current) THEN << >>
    ELSE << current >> \o iter_months(next_month(current), terminal)

RECURSIVE keep_missing(_, _)
keep_missing(markers, existing_keys) ==
    IF markers = << >> THEN << >>
    ELSE IF Head(markers) \in existing_keys
         THEN keep_missing(Tail(markers), existing_keys)
         ELSE << Head(markers) >> \o keep_missing(Tail(markers), existing_keys)

\* plan_missing_months(csv_path, start, end)
plan_missing_months(file, start, end) ==
    keep_missing(iter_months(start, end), DOMAIN load_existing_records(file))

\* the record of a call for the observer
upsert_observed(out, rows) ==
    IF out.raised
    THEN [ up EXCEPT !.raised = TRUE, !.written = << >>, !.changed = 0 ]
    ELSE [ completed |-> TRUE, raised |-> FALSE,
           written |-> last_written(rows), changed |-> out.changed ]

\* the command merges a batch of rows
batch_merge ==
    /\ batch.pc = "idle"
    /\ \E rows \in BatchCalls :
          LET out == upsert_outcome(csv, rows)
          IN  /\ csv' = out.file
              /\ up' = upsert_observed(out, rows)
              /\ batch' = [ batch EXCEPT !.pc = "merged", !.rows = rows, !.after = out.file ]
    /\ UNCHANGED << core, cal, mb, wr, portal, lk >>

\* the command is run again with the same batch
batch_repeat ==
    /\ batch.pc = "merged"
    /\ LET out == upsert_outcome(csv, batch.rows)
       IN  /\ csv' = out.file
           /\ up' = upsert_observed(out, batch.rows)
           /\ batch' = [ batch EXCEPT !.pc = "repeated" ]
    /\ UNCHANGED << core, cal, mb, wr, portal, lk >>

\* a later run plans the months it has to fetch
batch_plan ==
    /\ batch.pc = "merged"
    /\ \E start \in PlanMarkers, end \in PlanMarkers :
          batch' = [ batch EXCEPT !.pc = "planned", !.start = start, !.end = end,
                                  !.missing = plan_missing_months(csv, start, end) ]
    /\ UNCHANGED << core, cal, mb, csv, up, wr, portal, lk >>

BatchInit ==
    /\ CoreIdle
    /\ cal = NoCalendar
    /\ mb = IdleMonth
    /\ csv \in BatchFiles
    /\ up = NoUpsert
    /\ RestIdle

BatchNext ==
    \/ batch_merge
    \/ batch_repeat
    \/ batch_plan

BatchSpec == BatchInit /\ [][BatchNext]_vars

\* two concurrent upsert_csv calls on the same file
\* upsert_csv takes no lock, so two processes can be inside it at once; each
\* step below is one access to the file system.  Both processes use the same
\* temporary path (csv_path + ".tmp").  A file is known by the number of its
\* inode: a handle opened for writing keeps writing into its inode after the
\* name of the inode has changed.  A process can be interrupted between any
\* two steps.
WriterRows ==
    { [ year |-> 2023, month |-> 12, mid_rate |-> "6.9600" ],
      [ year |-> 2024, month |-> 1, mid_rate |-> "6.7600" ] }

WriterFiles ==
    {NoFile} \cup { [ exists |-> TRUE, rows |-> << ensure_all_fields(r, r.year, r.month) >> ] :
                      r \in [ year : {2023}, month : {1}, mid_rate : Rates ] }

\* existing = _load_existing_records(csv_path) and the loop over the rows
writer_load(w) ==
    /\ wr.procs[w].pc = "idle"
    /\ \E row \in WriterRows :
          wr' = [ wr EXCEPT !.procs[w] =
                    [ @ EXCEPT !.pc = "loaded", !.key = row_key(row),
                               !.target = upsert_outcome(csv, << row >>).file.rows ] ]
    /\ UNCHANGED << core, cal, mb, csv, up, batch, portal, lk >>

\* open(tmp_path, "w"): truncates the temporary file when it exists
writer_open(w) ==
    /\ wr.procs[w].pc = "loaded"
    /\ IF wr.tmp.exists
       THEN wr' = [ wr EXCEPT !.tmp.rows = << >>,
                              !.procs[w] = [ @ EXCEPT !.pc = "writing",
                                                      !.handle = wr.tmp.id ] ]
       ELSE wr' = [ wr EXCEPT !.tmp = [ exists |-> TRUE, rows |-> << >>, id |-> wr.next_id ],
                              !.next_id = @ + 1,
                              !.procs[w] = [ @ EXCEPT !.pc = "writing",
                                                      !.handle = wr.next_id ] ]
    /\ UNCHANGED << core, cal, mb, csv, up, batch, portal, lk >>

\* writer.writerow(...) reaching the file of the handle
writer_write(w) ==
    /\ wr.procs[w].pc = "writing"
    /\ wr.procs[w].pos < Len(wr.procs[w].target)
    /\ LET row == wr.procs[w].target[wr.procs[w].pos + 1]
           moved == [ wr EXCEPT !.procs[w].pos = @ + 1 ]
       IN  IF wr.tmp.exists /\ wr.tmp.id = wr.procs[w].handle
           THEN /\ wr' = [ moved EXCEPT !.tmp.rows = Append(@, row) ]
                /\ UNCHANGED csv
           ELSE IF csv.exists /\ wr.csv_id = wr.procs[w].handle
           THEN /\ wr' = moved
                /\ csv' = [ csv EXCEPT !.rows = Append(@, row) ]
           ELSE /\ wr' = moved
                /\ UNCHANGED csv
    /\ UNCHANGED << core, cal, mb, up, batch, portal, lk >>

\* the end of the with statement: the handle is closed
writer_close(w) ==
    /\ wr.procs[w].pc = "writing"
    /\ wr.procs[w].pos = Len(wr.procs[w].target)
    /\ wr' = [ wr EXCEPT !.procs[w].pc = "closed" ]
    /\ UNCHANGED << core, cal, mb, csv, up, batch, portal, lk >>

\* tmp_path.replace(csv_path): FileNotFoundError when the temporary file is gone
writer_replace(w) ==
    /\ wr.procs[w].pc = "closed"
    /\ IF wr.tmp.exists
       THEN /\ csv' = [ exists |-> TRUE, rows |-> wr.tmp.rows ]
            /\ wr' = [ wr EXCEPT !.tmp = NoTmp, !.csv_id = wr.tmp.id,
                                 !.procs[w].pc = "done" ]
       ELSE /\ wr' = [ wr EXCEPT !.procs[w].pc = "failed" ]
            /\ UNCHANGED csv
    /\ UNCHANGED << core, cal, mb, up, batch, portal, lk >>

\* the process is interrupted inside upsert_csv
writer_interrupted(w) ==
    /\ wr.procs[w].pc \in {"loaded", "writing", "closed"}
    /\ wr' = [ wr EXCEPT !.procs[w].pc = "killed" ]
    /\ UNCHANGED << core, cal, mb, csv, up, batch, portal, lk >>

WriterInit ==
    /\ CoreIdle
    /\ cal = NoCalendar
    /\ mb = IdleMonth
    /\ csv \in WriterFiles
    /\ up = NoUpsert
    /\ batch = IdleBatch
    /\ wr = [ IdleWriters EXCEPT !.initial = csv ]
    /\ portal = IdlePortal
    /\ lk = NoLock

WriterNext ==
    \/ \E w \in Writers : writer_load(w)
    \/ \E w \in Writers : writer_open(w)
    \/ \E w \in Writers : writer_write(w)
    \/ \E w \in Writers : writer_close(w)
    \/ \E w \in Writers : writer_replace(w)
    \/ \E w \in Writers : writer_interrupted(w)

WriterSpec == WriterInit /\ [][WriterNext]_vars

\* SAFE portal lookup
\* Days are numbered inside the month of the target: day 1 is its first day,
\* day MaxPortalLen its last; 0 and MaxPortalLen + 1 are days of the months
\* around it.  portal.first is the weekday of day 1 (0 = Monday).
FORWARD_LIMIT_DAYS == 10

PortalDays == 1..MaxPortalLen

PortalTableDays == 0..(MaxPortalLen + 1)

PortalTables == { a \in SUBSET PortalTableDays : Cardinality(a) <= MaxAvailable }

safe_weekday(d, first) == (first + d - 1) % 7

RECURSIVE safe_scan_business_day(_, _)
safe_scan_business_day(cursor, first) ==
    IF cursor > MaxPortalLen THEN None
    ELSE IF safe_weekday(cursor, first) < 5 THEN cursor
    ELSE safe_scan_business_day(cursor + 1, first)

safe_first_business_day(first) == safe_scan_business_day(1, first)

month_end == MaxPortalLen

build_query_window(first) ==
    LET first_business == safe_first_business_day(first)
        forward_limit == first_business + FORWARD_LIMIT_DAYS
    IN  [ window_start |-> first_business,
          window_end |-> IF forward_limit <= month_end THEN forward_limit ELSE month_end ]

select_forward_date_latest(available_dates, window_start, window_end) ==
    LET candidates == { d \in available_dates : window_start <= d /\ d <= window_end }
    IN  IF candidates = {} THEN None
        ELSE CHOOSE d \in candidates : \A e \in candidates : e <= d

select_forward_date(available_dates, window_start, window_end) ==
    LET candidates == { d \in available_dates : window_start <= d /\ d <= window_end }
    IN  IF candidates = {} THEN None
        ELSE CHOOSE d \in candidates : \A e \in candidates : d <= e

\* the request: the window is built from the target and posted to the portal,
\* which answers with a table of dates
portal_fetch ==
    /\ portal.pc = "idle"
    /\ \E first \in 0..6, target \in PortalDays, table \in PortalTables :
          LET window == build_query_window(first)
          IN  portal' = [ portal EXCEPT !.pc = "fetched", !.first = first,
                                        !.target = target, !.available = table,
                                        !.window_start = window.window_start,
                                        !.window_end = window.window_end ]
    /\ UNCHANGED << core, cal, mb, csv, up, batch, wr, lk >>

\* the rest of get_usd_cny_midpoint_from_portal: the date is selected, no
\* date raises LookupError
portal_select ==
    /\ portal.pc = "fetched"
    /\ LET chosen_date == select_forward_date(portal.available, portal.window_start,
                                              portal.window_end)
       IN  IF chosen_date = None
           THEN portal' = [ portal EXCEPT !.pc = "done", !.result = "LookupError" ]
           ELSE portal' = [ portal EXCEPT !.pc = "done", !.result = "safe_portal",
                                          !.source_date = chosen_date ]
    /\ UNCHANGED << core, cal, mb, csv, up, batch, wr, lk >>

PortalInit ==
    /\ CoreIdle
    /\ cal = NoCalendar
    /\ mb = IdleMonth
    /\ csv = NoFile
    /\ up = NoUpsert
    /\ batch = IdleBatch
    /\ wr = IdleWriters
    /\ portal = IdlePortal
    /\ lk = NoLock

PortalNext ==
    \/ portal_fetch
    \/ portal_select

PortalSpec == PortalInit /\ [][PortalNext]_vars

\* workbook_lock between processes
\* The in-process RLock is private to each process, so between processes only
\* the lock file counts.  lk.holder is the process whose os.open created the
\* lock file that exists now, "" when no lock file exists.  Each action is one
\* access to the file system by one process.

\* lock_path.exists() at the top of the try block
lock_check(p) ==
    /\ lk.procs[p].pc = "idle"
    /\ IF lk.holder # ""
       THEN lk' = [ lk EXCEPT !.procs[p] = [ @ EXCEPT !.pc = "finally",
                                                      !.error = "StoreLockedError" ] ]
       ELSE lk' = [ lk EXCEPT !.procs[p].pc = "open" ]
    /\ UNCHANGED << core, cal, mb, csv, up, batch, wr, portal >>

\* os.open(lock_path, O_CREAT | O_EXCL | O_WRONLY) and the write of the pid
lock_open(p) ==
    /\ lk.procs[p].pc = "open"
    /\ IF lk.holder # ""
       THEN lk' = [ lk EXCEPT !.procs[p] = [ @ EXCEPT !.pc = "finally",
                                                      !.error = "StoreLockedError" ] ]
       ELSE lk' = [ lk EXCEPT !.holder = p,
                              !.procs[p] = [ @ EXCEPT !.pc = "inside", !.fd = TRUE ] ]
    /\ UNCHANGED << core, cal, mb, csv, up, batch, wr, portal >>

\* the body of the with statement ends
lock_leave(p) ==
    /\ lk.procs[p].pc = "inside"
    /\ lk' = [ lk EXCEPT !.procs[p].pc = "finally" ]
    /\ UNCHANGED << core, cal, mb, csv, up, batch, wr, portal >>

\* finally: os.close(fd) when fd is set, then lock_path.exists()
lock_finally(p) ==
    /\ lk.procs[p].pc = "finally"
    /\ lk' = [ lk EXCEPT !.procs[p] =
                 [ @ EXCEPT !.fd = FALSE,
                            !.pc = IF lk.holder # "" THEN "unlink" ELSE "released" ] ]
    /\ UNCHANGED << core, cal, mb, csv, up, batch, wr, portal >>

\* finally: os.unlink(lock_path), FileNotFoundError when the file is gone
lock_unlink(p) ==
    /\ lk.procs[p].pc = "unlink"
    /\ IF lk.holder # ""
       THEN lk' = [ lk EXCEPT !.holder = "", !.procs[p].pc = "released" ]
       ELSE lk' = [ lk EXCEPT !.procs[p] = [ @ EXCEPT !.pc = "released",
                                                      !.error = "FileNotFoundError" ] ]
    /\ UNCHANGED << core, cal, mb, csv, up, batch, wr, portal >>

\* the caller uses the lock again
lock_again(p) ==
    /\ lk.procs[p].pc = "released"
    /\ lk' = [ lk EXCEPT !.procs[p] = [ pc |-> "idle", fd |-> FALSE, error |-> "" ] ]
    /\ UNCHANGED << core, cal, mb, csv, up, batch, wr, portal >>

LockInit ==
    /\ CoreIdle
    /\ cal = NoCalendar
    /\ mb = IdleMonth
    /\ csv = NoFile
    /\ up = NoUpsert
    /\ batch = IdleBatch
    /\ wr = IdleWriters
    /\ portal = IdlePortal
    /\ lk = NoLock

LockNext ==
    \/ \E p \in Procs : lock_check(p)
    \/ \E p \in Procs : lock_open(p)
    \/ \E p \in Procs : lock_leave(p)
    \/ \E p \in Procs : lock_finally(p)
    \/ \E p \in Procs : lock_unlink(p)
    \/ \E p \in Procs : lock_again(p)

LockSpec == LockInit /\ [][LockNext]_vars

\* ================================================================== claims
Range(q) == { q[i] : i \in 1..Len(q) }
IsPrefix(q, t) == Len(q) <= Len(t) /\ \A i \in 1..Len(q) : q[i] = t[i]
Failed == {"tls", "timeout", "lookup"}
RouterRan == router.pc # "idle" /\ router.prefer \in VALID_SOURCES

\* the order the specification fixes for a preference
ExpectedOrder(prefer) ==
    IF prefer \in {"auto", "pbc"} THEN << "pbc", "cfets", "safe" >>
    ELSE IF prefer = "cfets" THEN << "cfets", "safe" >>
    ELSE << "safe" >>

\* C1: the sources are invoked in the order fixed by prefer_source, each at
\* most once, a source only after every earlier one has failed; with
\* prefer_source=cfets PBOC is never invoked, with safe neither PBOC nor CFETS.
C1_SourceOrder ==
    RouterRan =>
        /\ IsPrefix(hist.invoked, ExpectedOrder(router.prefer))
        /\ Len(hist.invoked) <= Len(hist.outcomes) + 1
        /\ \A i \in 1..(Len(hist.invoked) - 1) : hist.outcomes[i] \in Failed
        /\ router.prefer = "cfets" => "pbc" \notin Range(hist.invoked)
        /\ router.prefer = "safe" => Range(hist.invoked) \subseteq {"safe"}

C1_Witness ==
    /\ router.pc = "done" /\ router.prefer = "cfets"
    /\ hist.invoked = << "cfets", "safe" >>
    /\ router.result = "quote"

\* C2: a transport failure of a source (here: the client error of a request
\* that failed for good) never reaches the caller of fetch_with_fallback while
\* a later source of the order is untried.
C2_TransportFailureAdvances ==
    ~ ( /\ router.pc = "done"
        /\ router.result = "PBOCClientError"
        /\ Len(hist.invoked) < Len(router.order) )

\* C3: after a TLS hostname mismatch of a source every later source of the
\* order is still invoked (up to the first that succeeds), and a success after
\* it is returned as a quote.
C3_TlsMismatchKeepsCascading ==
    router.pc = "done" /\ RouterRan =>
        \A i \in 1..Len(hist.outcomes) :
            hist.outcomes[i] = "tls" =>
                /\ \A j \in (i + 1)..Len(router.order) :
                      \/ j <= Len(hist.invoked)
                      \/ \E k \in (i + 1)..(j - 1) :
                            k <= Len(hist.outcomes) /\ hist.outcomes[k] = "ok"
                /\ (\E k \in (i + 1)..Len(hist.outcomes) : hist.outcomes[k] = "ok")
                      => router.result = "quote"

\* C4: when every source of the order has failed (TLS mismatch, timeout or
\* lookup failure), the router raises the TLS error if one was raised and
\* prefer_source is auto or pbc, and RateLookupError in every other case.
C4_AllFailError ==
    ( /\ router.pc = "done" /\ RouterRan
      /\ Len(hist.outcomes) = Len(router.order)
      /\ \A i \in 1..Len(hist.outcomes) : hist.outcomes[i] \in Failed )
    => router.result =
          IF "tls" \in Range(hist.outcomes) /\ router.prefer \in {"auto", "pbc"}
          THEN "CertHostnameMismatch" ELSE "RateLookupError"

C4_Witness ==
    /\ router.pc = "done" /\ router.prefer = "cfets"
    /\ hist.outcomes = << "tls", "lookup" >>
    /\ router.result = "RateLookupError"

\* C5: once the request cycle was begun, no cycle is active after
\* fetch_with_fallback is left, by a quote, by its own error or by an
\* exception of a scraper that it does not catch.
C5_CycleEnded ==
    router.pc = "done" /\ hist.begins >= 1 => deadline = None

C5_Witness ==
    /\ router.pc = "done" /\ router.result = "SSLError"
    /\ hist.begins = 1 /\ deadline = None

\* C6: the deadline anchor is set once, before the first source is invoked,
\* no source begins, ends or moves it, and every request of every source is
\* measured against that anchor.
C6_OneSharedCycle ==
    /\ router.pc \in {"loop", "wait"} =>
          /\ hist.begins = 1 /\ hist.ends = 0
          /\ hist.anchor = hist.begun_at + cfg.total_deadline
          /\ deadline = hist.anchor
          /\ rq.pc # "idle" => rq.deadline_end = hist.anchor
          /\ src.name = "pbc" => src.gen_deadline = hist.anchor
    /\ hist.invoked # << >> => hist.begins = 1

C6_Witness ==
    /\ router.pc = "wait" /\ src.name = "safe" /\ Len(hist.invoked) = 3
    /\ rq.issued >= 1 /\ now > hist.begun_at
    /\ rq.deadline_end = hist.anchor

\* C7 (as stated): fallback_used is 'forward' whenever the successful source
\* returned a source_date different from the requested date, whichever source
\* it is; otherwise 'none' for the first source tried, else the source's name.
C7_ForwardForAnySource ==
    router.pc = "done" /\ router.result = "quote" =>
        router.fallback_used =
            IF router.source_date # router.target_date THEN "forward"
            ELSE IF Len(hist.invoked) = 1 THEN "none"
            ELSE hist.invoked[Len(hist.invoked)]

\* C7 (amended): fallback_used is 'forward' when the successful source is the
\* SAFE portal and its source_date differs from the requested date; otherwise
\* 'none' for the first source tried, else the source's name.
C7_ForwardForPortalOnly ==
    router.pc = "done" /\ router.result = "quote" =>
        router.fallback_used =
            IF router.rate_source = "safe_portal" /\ router.source_date # router.target_date
            THEN "forward"
            ELSE IF Len(hist.invoked) = 1 THEN "none"
            ELSE hist.invoked[Len(hist.invoked)]

C7_Witness ==
    /\ router.pc = "done" /\ router.result = "quote"
    /\ router.rate_source = "cfets_notice"
    /\ router.source_date # router.target_date
    /\ router.fallback_used = "cfets"

\* C8: no attempt is issued when the remaining budget is zero or less
\* (FetchTimeout is raised instead, nothing is sent, no time passes), and the
\* connect and read timeouts of every issued attempt are at most the budget
\* that remained when it was issued.
C8_IssuedWithinBudget ==
    rq.issued >= 1 => rq.rem > 0 /\ rq.tc <= rq.rem /\ rq.tr <= rq.rem /\ rq.tc > 0 /\ rq.tr > 0

C8_ExhaustedRaises ==
    rq.pc = "check" /\ remaining_deadline(rq.deadline_end, now) <= 0 =>
        /\ rq'.pc = "ret" /\ rq'.result = "FetchTimeout"
        /\ rq'.issued = rq.issued /\ now' = now
        /\ metrics'.request_attempts = metrics.request_attempts

C8_AttemptsWithinBudget == [](C8_IssuedWithinBudget) /\ [][C8_ExhaustedRaises]_vars

C8_Witness ==
    /\ rq.pc = "ret" /\ rq.result = "FetchTimeout"
    /\ rq.issued >= 1 /\ rq.tr = rq.rem /\ rq.tr < cfg.read_timeout

\* C9: within one request cycle the time spent in attempts, backoff sleeps and
\* page delays never exceeds the total deadline by more than one attempt's
\* timeout, and every backoff sleep is at most the deadline remaining when it
\* starts.
C9_DeadlineBound ==
    hist.begins >= 1 =>
        /\ hist.spent <= cfg.total_deadline + Max(cfg.connect_timeout, cfg.read_timeout)
        /\ rq.slept <= rq.slept_rem

C9_Witness ==
    /\ hist.spent > cfg.total_deadline
    /\ rq.via = "sleep" /\ rq.last = "timeout"
    /\ rq.slept = 0 /\ rq.slept_rem = 0

\* C10: one call of _request issues at most cfg.attempts attempts and ends
\* within a bounded number of steps; a further attempt follows only a timed-out
\* attempt and its backoff sleep, or a host substitution; a successful attempt
\* and a non-timeout, non-TLS failure end the call at once; no sleep follows
\* the last attempt.
RequestMeasure(r) ==
    IF r.pc \in {"ret", "idle"} THEN 0
    ELSE 2 * (cfg.attempts - r.attempt) + (IF r.pc = "check" THEN 2 ELSE 1)

C10_AttemptBound ==
    /\ rq.issued <= cfg.attempts
    /\ rq.pc = "sleep" => rq.issued < cfg.attempts /\ rq.last = "timeout"
    /\ rq.sleeps <= cfg.attempts - 1
    /\ rq.last = "ok" => rq.pc = "ret" /\ rq.result = "ok"
    /\ rq.last = "http_error" => rq.pc = "ret" /\ rq.result = "PBOCClientError"
    /\ (rq.issued >= 2 /\ rq.issued = rq.attempt /\ rq.pc # "check") =>
          \/ rq.via = "subst"
          \/ rq.via = "sleep" /\ rq.slept > 0
    /\ rq.pc \in {"check", "sleep"} =>
          /\ RequestMeasure(rq) > 0
          /\ ENABLED (request_attempt \/ request_sleep)

C10_Progress ==
    rq.pc \in {"check", "sleep"} /\ rq' # rq => RequestMeasure(rq') < RequestMeasure(rq)

C10_BoundedAttempts == [](C10_AttemptBound) /\ [][C10_Progress]_vars

C10_Witness ==
    /\ rq.pc = "ret" /\ rq.result = "PBOCClientError"
    /\ rq.issued = cfg.attempts /\ rq.sleeps = cfg.attempts - 1
    /\ rq.last = "timeout" /\ cfg.attempts >= 2

\* an attempt has just been issued by this step
AttemptIssued == rq.pc = "check" /\ rq'.issued = rq.issued + 1

\* C11: in strict TLS mode, and in lenient mode with an empty allow-list, an
\* attempt that fails with a hostname mismatch ends the call of _request with
\* CertHostnameMismatch and no further attempt, whatever the fingerprint of
\* the certificate and the fallback-host list are.
C11_StrictMismatchFatal ==
    ( rq.last = "ssl_mismatch" /\ (env.strict_mode \/ env.allowed = {}) )
    => rq.pc = "ret" /\ rq.result = "CertHostnameMismatch"

C11_Witness ==
    /\ env.strict_mode /\ env.allowed = {"fpA"} /\ env.fallback_hosts # << >>
    /\ rq.last = "ssl_mismatch" /\ rq.fp = "fpA"
    /\ rq.issued = 1 /\ cfg.attempts >= 2
    /\ rq.pc = "ret" /\ rq.result = "CertHostnameMismatch"

\* C12: in lenient mode a hostname mismatch whose certificate fingerprint is
\* in the allow-list does not make _request raise CertHostnameMismatch.
C12_LenientAcceptNoRaise ==
    ( ~env.strict_mode /\ rq.last = "ssl_mismatch" /\ rq.fp \in env.allowed )
    => rq.result # "CertHostnameMismatch"

\* C13 as stated: with a fallback-host list configured, an attempt that fails
\* with a hostname mismatch never makes _request raise CertHostnameMismatch.
C13_FallbackListNoRaise ==
    ( env.fallback_hosts # << >> /\ rq.last = "ssl_mismatch" )
    => rq.result # "CertHostnameMismatch"

\* the first fallback host that differs from host h, "" when there is none
FirstOtherFallback(h) ==
    LET others == { i \in 1..Len(env.fallback_hosts) : env.fallback_hosts[i] # h }
    IN  IF others = {} THEN ""
        ELSE env.fallback_hosts[CHOOSE i \in others : \A j \in others : i <= j]

\* the one case in which _request reaches the host substitution
SubstitutionCase ==
    /\ ~env.strict_mode
    /\ rq'.fp \in env.allowed
    /\ ~diag_emitted
    /\ FirstOtherFallback(rq.host) # ""

\* C13: an attempt that fails with a hostname mismatch is followed by a host
\* substitution exactly when the mode is lenient, the fingerprint is in the
\* allow-list, it is the first mismatch of the request cycle and the list has
\* a host other than the current one; then _request does not raise
\* CertHostnameMismatch, puts the first such host into the URL and goes on
\* with the remaining attempts under the same deadline (PBOCClientError when
\* none remains); in every other case it raises CertHostnameMismatch.
C13_SubstitutionStep ==
    ( AttemptIssued /\ rq'.last = "ssl_mismatch" ) =>
        IF SubstitutionCase
        THEN /\ rq'.host = FirstOtherFallback(rq.host)
             /\ rq'.host # rq.host
             /\ rq'.deadline_end = rq.deadline_end
             /\ deadline' = deadline
             /\ rq'.result # "CertHostnameMismatch"
             /\ IF rq.attempt < cfg.attempts
                THEN rq'.pc = "check" /\ rq'.attempt = rq.attempt + 1
                ELSE rq'.pc = "ret" /\ rq'.result = "PBOCClientError"
        ELSE /\ rq'.pc = "ret" /\ rq'.result = "CertHostnameMismatch"
             /\ rq'.host = rq.host

C13_SubstitutionWhenLenient == [][C13_SubstitutionStep]_vars

C13_Witness ==
    /\ ~env.strict_mode /\ rq.fp \in env.allowed
    /\ rq.last = "ssl_mismatch" /\ rq.via = "subst"
    /\ rq.host = "mirror" /\ rq.pc = "check" /\ rq.attempt = 2

\* C14: every issued attempt adds one to request_attempts and one to exactly
\* one of request_successes / request_failures (successes for a good
\* response), nothing else changes the three counters, so request_attempts =
\* request_successes + request_failures throughout; a deadline violation adds
\* to deadline_exceeded and leaves request_attempts as it is.
C14_Balance ==
    metrics.request_attempts = metrics.request_successes + metrics.request_failures

C14_Step ==
    /\ AttemptIssued =>
          /\ metrics'.request_attempts = metrics.request_attempts + 1
          /\ IF rq'.last = "ok"
             THEN /\ metrics'.request_successes = metrics.request_successes + 1
                  /\ metrics'.request_failures = metrics.request_failures
             ELSE /\ metrics'.request_successes = metrics.request_successes
                  /\ metrics'.request_failures = metrics.request_failures + 1
    /\ ~AttemptIssued =>
          /\ metrics'.request_attempts = metrics.request_attempts
          /\ metrics'.request_successes = metrics.request_successes
          /\ metrics'.request_failures = metrics.request_failures
    /\ ( rq.pc = "check" /\ rq'.result = "FetchTimeout" ) =>
          /\ metrics'.deadline_exceeded = metrics.deadline_exceeded + 1
          /\ metrics'.request_attempts = metrics.request_attempts

C14_MetricsAccounting == [](C14_Balance) /\ [][C14_Step]_vars

C14_Witness ==
    /\ metrics.request_successes >= 1 /\ metrics.request_failures >= 1
    /\ metrics.deadline_exceeded >= 1
    /\ rq.pc = "ret" /\ rq.result = "FetchTimeout"

\* the business days of the month as the specification defines them
BusinessDays ==
    { d \in MonthDays :
        /\ d \notin cal.holidays
        /\ \/ weekday(d, cal) \in 0..4
           \/ d \in cal.workdays }

Earliest(S) == CHOOSE d \in S : \A e \in S : d <= e

\* C15: first_business_day returns the earliest date of the month that is not
\* a holiday and is a weekday or a declared workday; a holiday is never
\* returned, even when it is also a declared workday; with no such date in the
\* month it raises (ValueError, which fetch_month_rate lets through).
C15_FirstBusinessDay ==
    mb.pc # "idle" =>
        IF BusinessDays = {}
        THEN mb.first = None /\ mb.pc = "done" /\ mb.result = "ValueError"
        ELSE /\ mb.first = Earliest(BusinessDays)
             /\ mb.first \notin cal.holidays
             /\ mb.result # "ValueError"

C15_Witness ==
    /\ mb.pc = "loop"
    /\ 1 \in cal.holidays /\ 1 \in cal.workdays
    /\ mb.first > 1 /\ weekday(mb.first, cal) >= 5 /\ mb.first \in cal.workdays

\* the candidate order the specification fixes
ExpectedForward ==
    LET later == SetToSeq({ d \in BusinessDays : d > mb.first })
    IN  SubSeq(later, 1, Min(3, Len(later)))

ExpectedBackward == [ i \in 1..(mb.first - 1) |-> mb.first - i ]

ExpectedCandidates == << mb.first >> \o ExpectedForward \o ExpectedBackward

\* C16: the dates looked up are, in order, the first business day, up to three
\* later business days of the month ascending, then the dates before the first
\* business day descending to day 1; none is looked up twice; every lookup
\* before the last one failed with a rate-lookup error; a quote ends the
\* lookups and carries query_date = the first business day and request_date =
\* the date whose lookup gave it.
C16_CandidateOrder ==
    mb.first # None =>
        /\ IsPrefix(mb.looked, ExpectedCandidates)
        /\ \A i, j \in 1..Len(mb.looked) : i # j => mb.looked[i] # mb.looked[j]
        /\ \A i \in 1..(Len(mb.looked) - 1) : mb.outcomes[i] = "RateLookupError"
        /\ mb.pc = "loop" => Len(mb.looked) = mb.idx - 1
        /\ (mb.pc = "loop" /\ mb.looked # << >>) =>
              mb.outcomes[Len(mb.looked)] = "RateLookupError"
        /\ (mb.pc = "done" /\ mb.result = "quote") =>
              /\ mb.outcomes[Len(mb.outcomes)] = "quote"
              /\ mb.query_date = mb.first
              /\ mb.request_date = mb.looked[Len(mb.looked)]

C16_Witness ==
    /\ mb.pc = "done" /\ mb.result = "quote"
    /\ Len(ExpectedForward) = 3 /\ mb.first > 1
    /\ Len(mb.looked) = 5 /\ mb.request_date = mb.first - 1

\* C17 as stated: every date passed to the lookup is a business day.
C17_AllCandidatesBusinessDays ==
    \A i \in 1..Len(mb.looked) : mb.looked[i] \in BusinessDays

\* C17: every date passed to the lookup is a date of the month; the first
\* business day and the forward candidates are business days, the candidates
\* of the backward walk are the dates before the first business day, none of
\* which is a business day.
C17_ForwardCandidatesBusinessDays ==
    \A i \in 1..Len(mb.looked) :
        /\ mb.looked[i] \in MonthDays
        /\ mb.looked[i] >= mb.first => mb.looked[i] \in BusinessDays
        /\ mb.looked[i] < mb.first =>
              /\ mb.looked[i] \notin BusinessDays
              /\ i > 1 + Len(ExpectedForward)

C17_Witness ==
    /\ Len(mb.looked) >= 3
    /\ mb.looked[2] > mb.first + 1
    /\ mb.looked[Len(mb.looked)] < mb.first

\* C18: a quote obtained on a date other than the first business day has a
\* fallback_used other than 'none'.
C18_ProbedNotNone ==
    ( mb.pc = "done" /\ mb.result = "quote" /\ mb.request_date # mb.query_date )
    => mb.fallback_used # "none"

\* C19: a TLS hostname mismatch of a lookup ends fetch_month_rate with that
\* error and no later lookup; when fetch_month_rate ends with RateLookupError
\* every candidate has been looked up and every lookup failed with a
\* rate-lookup error, and while lookups fail that way the next candidate is
\* looked up.
C19_MonthErrors ==
    /\ "CertHostnameMismatch" \in Range(mb.outcomes) =>
          /\ mb.pc = "done" /\ mb.result = "CertHostnameMismatch"
          /\ mb.outcomes[Len(mb.outcomes)] = "CertHostnameMismatch"
    /\ (mb.pc = "done" /\ mb.result = "RateLookupError") =>
          /\ mb.looked = ExpectedCandidates
          /\ \A i \in 1..Len(mb.outcomes) : mb.outcomes[i] = "RateLookupError"
    /\ (mb.pc = "loop" /\ \A i \in 1..Len(mb.outcomes) : mb.outcomes[i] = "RateLookupError")
          => ENABLED (month_lookup \/ month_all_fail)
    /\ (mb.pc = "done" /\ mb.first # None
        /\ \A i \in 1..Len(mb.outcomes) : mb.outcomes[i] = "RateLookupError")
          => mb.result = "RateLookupError"

C19_Witness ==
    /\ mb.pc = "done" /\ mb.result = "CertHostnameMismatch"
    /\ Len(mb.looked) = 2 /\ Len(mb.attempts) > 2

\* the (year, month) key of a row of the file, and the order of the keys
FileKey(row) == << parse_int(row.year), parse_int(row.month) >>
KeyBefore(a, b) == a[1] < b[1] \/ (a[1] = b[1] /\ a[2] < b[2])
AllKeys == Years \X Months

\* the mid_rate of the last row of key k in a sequence of file rows
RateIn(rows, k) ==
    LET idx == { i \in 1..Len(rows) : FileKey(rows[i]) = k }
    IN  IF idx = {} THEN "absent"
        ELSE rows[CHOOSE i \in idx : \A j \in idx : j <= i].mid_rate

\* C20: once upsert_csv has completed, the file holds at most one row per
\* (year, month) and its rows ascend strictly by (year, month); a completed
\* call leaves for every key it was handed the last row handed in for it, and
\* for every other key the row the file had (the last one, had the file
\* several); a call that raises leaves the file as it was.
C20_StoreSorted ==
    up.completed =>
        /\ csv.exists
        /\ \A i, j \in 1..Len(csv.rows) :
              i < j => KeyBefore(FileKey(csv.rows[i]), FileKey(csv.rows[j]))

C20_UpsertStep ==
    IF up'.raised THEN csv' = csv
    ELSE /\ \A i \in 1..Len(csv'.rows) : FileKey(csv'.rows[i]) \in AllKeys
         /\ \A k \in AllKeys :
               RateIn(csv'.rows, k) =
                   IF k \in DOMAIN up'.written THEN up'.written[k]
                   ELSE RateIn(csv.rows, k)

C20_StoreUpsert == [](C20_StoreSorted) /\ [][C20_UpsertStep]_vars

C20_Witness ==
    /\ up.completed /\ ~up.raised
    /\ Cardinality(DOMAIN up.written) = 1 /\ up.changed = 2
    /\ Len(csv.rows) = 2

\* C21: merging the same batch a second time leaves the file as the first
\* merge left it, for rows under canonical names and under aliased ones.
C21_UpsertIdempotent ==
    batch.pc = "repeated" => csv = batch.after

C21_Witness ==
    /\ batch.pc = "repeated" /\ ~up.raised /\ up.completed
    /\ Len(batch.rows) = 2
    /\ "zh_year" \in DOMAIN batch.rows[1] /\ "year" \in DOMAIN batch.rows[2]
    /\ Len(csv.rows) = 3

\* the keys of the rows of a file
FileKeys(rows) == { FileKey(rows[i]) : i \in 1..Len(rows) }

\* C22: a completed upsert_csv on a file that is absent or was written by
\* upsert_csv keeps every row whose key the batch does not have, field by
\* field, and the number of rows grows by the number of keys of the batch the
\* file did not have.
C22_FrameStep ==
    ( (up.completed \/ ~csv.exists) /\ up'.completed /\ ~up'.raised ) =>
        /\ \A i \in 1..Len(csv.rows) :
              FileKey(csv.rows[i]) \notin DOMAIN up'.written =>
                  \E j \in 1..Len(csv'.rows) : csv'.rows[j] = csv.rows[i]
        /\ Len(csv'.rows) =
              Len(csv.rows) + Cardinality(DOMAIN up'.written \ FileKeys(csv.rows))

C22_UnrelatedMonthsKept == [][C22_FrameStep]_vars

C22_Witness ==
    /\ up.completed /\ ~up.raised
    /\ Cardinality(DOMAIN up.written) = 1 /\ up.changed = 1
    /\ Len(csv.rows) = 4

\* the months from start's month to end's month
MonthsBetween(start, end) ==
    { k \in (2023..2024) \X (1..12) : ~KeyBefore(k, start) /\ ~KeyBefore(end, k) }

\* C23: plan_missing_months returns, ascending, exactly the months of the
\* range that have no row in the file; a month the preceding upsert_csv wrote
\* is not among them.
C23_PlanMissing ==
    batch.pc = "planned" =>
        /\ \A i, j \in 1..Len(batch.missing) :
              i < j => KeyBefore(batch.missing[i], batch.missing[j])
        /\ Range(batch.missing) =
              { k \in MonthsBetween(batch.start, batch.end) : k \notin FileKeys(csv.rows) }
        /\ \A k \in DOMAIN up.written : k \notin Range(batch.missing)

C23_Witness ==
    /\ batch.pc = "planned"
    /\ batch.start = << 2023, 11 >> /\ batch.end = << 2024, 2 >>
    /\ DOMAIN up.written = { << 2023, 12 >>, << 2024, 1 >> }
    /\ batch.missing = << << 2023, 11 >>, << 2024, 2 >> >>

\* C24: when two upsert_csv calls for different months have both completed,
\* the file holds both months.
C24_NoLostUpdate ==
    ( /\ \A w \in Writers : wr.procs[w].pc = "done"
      /\ wr.procs["w1"].key # wr.procs["w2"].key )
    => \A w \in Writers : wr.procs[w].key \in FileKeys(csv.rows)

\* C29: the file at the path of the store is always the complete content it
\* had before the merges or the complete row set one of the merges computed.
C29_StoreNeverPartial ==
    \/ csv = wr.initial
    \/ \E w \in Writers :
          /\ wr.procs[w].pc # "idle"
          /\ csv = [ exists |-> TRUE, rows |-> wr.procs[w].target ]

\* the days of the table that lie in the window the code documents: from the
\* first weekday of the target's month to ten days later, the end of the month
\* at most
FirstWeekday == CHOOSE d \in PortalDays :
    /\ (portal.first + d - 1) % 7 < 5
    /\ \A e \in 1..(d - 1) : (portal.first + e - 1) % 7 >= 5

InWindow ==
    { d \in portal.available :
        /\ FirstWeekday <= d
        /\ d <= FirstWeekday + 10
        /\ d <= MaxPortalLen }

C26_MutualExclusion ==
    Cardinality({ p \in Procs : lk.procs[p].pc = "inside" }) <= 1

\* C27: a logical fetch whose last attempt met a hostname mismatch has run the
\* TLS diagnostics exactly once.
C27_DiagnosticsPerFetch ==
    (rq.pc # "idle" /\ rq.last = "ssl_mismatch") => rq.diag = 1

\* C30: the deadline_exceeded metric grows only in the step in which _request
\* raises FetchTimeout, and by exactly one.
C30_Step ==
    metrics'.deadline_exceeded > metrics.deadline_exceeded
    => /\ rq.pc = "check"
       /\ rq'.pc = "ret"
       /\ rq'.result = "FetchTimeout"
       /\ metrics'.deadline_exceeded = metrics.deadline_exceeded + 1

C30_OnePerViolation == [][C30_Step]_vars

Scanning == src.pc \in {"pbc_index", "pbc_article", "pbc_delay"}

C28_Bounded ==
    /\ Scanning => src.page < MaxPages /\ src.fails < 2
    /\ \A i, j \in 1..Len(src.yielded) : src.yielded[i] = src.yielded[j] => i = j

C28_Step ==
    /\ ( /\ src.pc = "pbc_index"
         /\ rq.pc = "ret"
         /\ rq.result \in {"FetchTimeout", "CertHostnameMismatch"} )
       => src'.pc \notin {"pbc_index", "pbc_article", "pbc_delay"}
    /\ (src.pc = "pbc_index" /\ src'.pc \in {"pbc_article", "pbc_delay"})
       => src'.fails = 0
    /\ (src.pc = "pbc_index" /\ src'.pc = "pbc_index" /\ src'.page # src.page)
       => src'.page = src.page + 1 /\ src'.fails = src.fails + 1
    /\ (src.pc = "pbc_index" /\ src'.fails = 2 /\ src.fails = 1)
       => src'.pc = "pbc_keychart" /\ metrics'.early_stop

\* C28: the index enumeration stays below max_pages pages, never goes on with
\* two consecutive unreadable pages behind it (it stops there, with early_stop
\* set), counts an unreadable page and resets the count on a readable one,
\* yields no article URL twice, and ends at the step in which an index fetch
\* raised FetchTimeout or CertHostnameMismatch.
C28_IndexEnumeration == []C28_Bounded /\ [][C28_Step]_vars

C28_Witness ==
    /\ src.pc = "pbc_keychart"
    /\ src.fails = 2
    /\ src.page + 1 < MaxPages
    /\ metrics.early_stop

====
